---- MODULE Spec2Model ----
(***************************************************************************)
(* balancebeam (code/proj-2/balancebeam/src/main.rs): a reverse proxy with *)
(* three kinds of concurrent tasks sharing one ProxyState:                 *)
(*   - health_check: the Health Monitor, rebuilding alive_upstreams;       *)
(*   - ramte_limit_map_clear: the reset loop, clearing rate_limit_map;     *)
(*   - handle_connection: one task per accepted client connection.         *)
(* A step of the model is what one task does between two suspension points *)
(* (.await), so a lock taken and dropped without suspending in between is  *)
(* taken and dropped inside one step.  Sockets, the codec and the timers   *)
(* are the environment: their outcomes are chosen nondeterministically.    *)
(*                                                                         *)
(* The repository's other programs are separate binaries, modelled after   *)
(* the proxy, each with its own variables and its own specification; while *)
(* one program runs the variables of the others stay at rest:              *)
(*   - parallel_map (code/week6/parallel_map/src/main.rs), a map over a    *)
(*     vector by worker threads fed and drained through two channels;      *)
(*   - linked_list (code/week3/linked_list/src/linked_list.rs), a singly   *)
(*     linked list of boxed nodes with a size field;                       *)
(*   - deet (code/proj-1/deet/src), a debugger that reads commands from a  *)
(*     prompt and runs one traced child process, the inferior.             *)
(***************************************************************************)
EXTENDS Integers, Sequences, FiniteSets, TLC

\* ------------------------------------------------------------------ bounds
MaxUpstreams == 2      \* longest --upstream list explored
MaxThreshold == 2      \* largest --max-requests-per-minute explored
MaxCount == 3          \* cap on one client's per-window counters
NumConns == 2          \* client connections accepted in one run
MaxPending == 2        \* cap on the counts of one connection's unanswered requests
MaxXff == 1            \* most entries of an incoming X-Forwarded-For header
MaxInput == 2          \* longest input vector given to parallel_map
MaxThreads == 2        \* largest num_threads given to parallel_map
MaxNodes == 3          \* most nodes a LinkedList holds at a time
MaxTokens == 2         \* most words on a line typed at the deet prompt

Addrs == {"A", "B"}            \* upstream addresses that may be configured
Clients == {"c1", "c2"}        \* client IP addresses
Conns == 1..NumConns           \* one handle_connection task per connection

\* Outcomes of the environment.
ProbeOutcomes == {"connect_err", "write_err", "read_err", "200", "500"}
BadRequests == {"incomplete", "malformed", "invalid_content_length", "content_length_mismatch"}
RequestOutcomes == {"ok", "eof", "io_err", "too_large"} \cup BadRequests
XffEntries == {"c1", "p"}      \* addresses an incoming X-Forwarded-For header may list
Rests == {"r1", "r2"}          \* what else a request holds: line, other headers, body

VARIABLES
    \* ProxyState, set once in main
    upstream_addresses,        \* Vec<String>: the configured list, in order
    max_requests_per_minute,   \* usize: the threshold, 0 = unlimited
    \* ProxyState, shared and mutable
    alive_upstreams,           \* RwLock<HashSet<String>>: the Upstream Set
    alive_writer,              \* who holds the RwLock's write guard across a suspension
    rate_limit_map,            \* Mutex<HashMap<String, u32>>: a function on its keys
    map_owner,                 \* the handler holding the Mutex across a suspension, 0 = none
    \* health_check
    hc_next,                   \* index of the next upstream to probe, 0 = sleeping
    \* handle_connection, per connection
    pc,                        \* the handler's position
    client_ip,                 \* peer address of client_conn
    upstream_ip,               \* the address chosen in connect_to_upstream / peer of upstream_conn
    \* history (written, never read by the program's actions)
    round_ok,                  \* addresses that answered 200 in the round in progress / last finished
    all_failed,                \* the last finished round had no 200 answer
    settled_upstreams,         \* alive_upstreams as it stood when the write guard was last free
    doomed,                    \* per handler: its selection started while all_failed
    window_checks,             \* per client: requests that reached the rate-limit check since the last clear
    window_admits,             \* per client: requests admitted by the check since the last clear
    window_fwd,                \* requests of client Watched written to an upstream since the last clear
    prev_admits,               \* window_admits[Watched] of the window before the last clear
    rejections,                \* 429 responses written on connection WatchedConn so far, capped at 1
    \* main's accept loop
    listening,                 \* the loop around listener.accept() is running
    \* handle_connection of connection WatchedConn: its request, and its history
    request,                   \* the request read from the client and not yet answered
    upstream_wire,             \* that request as it was written to upstream_conn
    read_outcome,              \* what the last read_from_stream(&mut client_conn) returned
    pending,                   \* requests read from the client and not answered yet
    unread,                    \* requests written to the upstream whose response is not read yet
    served,                    \* a response of the upstream was relayed to the client before
    \* history of the routing after a round
    b_only,                    \* in the last finished round A did not answer 200 and B did
    routed,                    \* per handler: it was accepted while b_only
    \* history of connect_to_upstream of connection WatchedConn
    attempts,                  \* its failed connects since the last round completed
    observe,                   \* which of the history variables this run records
    \* parallel_map: its arguments, its locals, its threads
    input_vec,                 \* Vec<T>: the input as given
    num_threads,               \* usize: the number of workers spawned
    sent,                      \* how many elements `drain(..)` has yielded and main has sent
    input_sender,              \* main's Sender<T> is not dropped yet
    input_channel,             \* the messages in the bounded input channel, oldest first
    output_channel,            \* the messages in the bounded output channel, oldest first
    worker_pc,                 \* per worker: its position
    worker_input,              \* per worker: the input it received and has not answered yet
    output_vec,                \* Vec<U>: the results pushed so far
    main_pc,                   \* the caller's position in parallel_map
    \* linked_list: one LinkedList<T>, its nodes on the heap, and its history
    head,                      \* Option<Box<Node<T>>>: the first node, 0 = None
    size,                      \* usize
    nodes,                     \* the boxed nodes that are allocated: value and next (0 = None)
    last_op,                   \* the method that was called last
    last_popped,               \* what the last pop_front returned
    pushed,                    \* the values pushed and not popped yet, the latest first
    \* deet: the Debugger, its child process and the terminal
    inferior,                  \* Option<Inferior>: "None" or "Some"
    breakpoints,               \* the addresses of the breakpoints that are set
    child,                     \* the process the last Inferior was made for
    live,                      \* the number of child processes that exist
    debugger,                  \* "running", "returned" from run, or "aborted" by a panic
    command,                   \* what get_next_command returned, until it is carried out
    last_read,                 \* what readline returned last
    printed                    \* the last message printed

mapVars == <<input_vec, num_threads, sent, input_sender, input_channel, output_channel,
             worker_pc, worker_input, output_vec, main_pc>>

listVars == <<head, size, nodes, last_op, last_popped, pushed>>

\* The variables of the programs other than the proxy.
deetVars == <<inferior, breakpoints, child, live, debugger, command, last_read, printed>>

otherPrograms == <<mapVars, listVars, deetVars>>

vars == <<upstream_addresses, max_requests_per_minute, alive_upstreams, alive_writer,
          rate_limit_map, map_owner, hc_next, pc, client_ip, upstream_ip,
          round_ok, all_failed, settled_upstreams, doomed,
          window_checks, window_admits, window_fwd, prev_admits, rejections,
          listening, request, upstream_wire, read_outcome, pending, unread, served,
          b_only, routed, attempts, observe, otherPrograms>>

configVars == <<upstream_addresses, max_requests_per_minute, observe>>
upstreamVars == <<alive_upstreams, alive_writer, hc_next, round_ok, all_failed, settled_upstreams>>
rateVars == <<rate_limit_map, map_owner, window_checks, window_admits, prev_admits>>
historyVars == <<doomed, window_fwd, rejections>>
loopVars == <<read_outcome, pending, unread, served>>
headerVars == <<request, upstream_wire>>
routeVars == <<b_only, routed>>
watchVars == <<listening, attempts, loopVars, headerVars, routeVars>>

\* ------------------------------------------------------------------ helpers
RECURSIVE SeqsUpTo(_, _)
SeqsUpTo(S, n) ==
    IF n = 0 THEN {<<>>}
    ELSE LET shorter == SeqsUpTo(S, n - 1)
         IN  shorter \cup {Append(s, x) : s \in {t \in shorter : Len(t) = n - 1}, x \in S}

Range(s) == {s[i] : i \in 1..Len(s)}

ZeroCounts == [c \in Clients |-> 0]

\* The client whose forwarded requests and previous window are recorded, and
\* the connection whose rejections are.
Watched == "c1"
WatchedConn == CHOOSE h \in Conns : \A g \in Conns : h <= g

\* A history variable takes its new value only in a run that records it.
ObserveUpstream == "upstream" \in observe
ObserveRate == "rate" \in observe
ObserveForwarded == "forwarded" \in observe
ObserveBurst == "burst" \in observe
ObserveRejections == "rejections" \in observe
ObserveLoop == "loop" \in observe
ObserveHeader == "header" \in observe
ObserveRoute == "route" \in observe
ObserveRetries == "retries" \in observe
Recorded(on, new, old) == IF on THEN new ELSE old

\* What the history keeps of connection h only if it is the watched one.
OnWatched(h, on, new, old) == Recorded(on /\ h = WatchedConn, new, old)

\* One more, up to `cap`; one less, down to 0.
Inc(x, cap) == IF x < cap THEN x + 1 ELSE x
Dec(x) == IF x > 0 THEN x - 1 ELSE 0

\* No request is held: nothing is read yet, or the loop's iteration is over.
NoRequest == [xff |-> <<>>, rest |-> "none"]

\* The requests a client may send: the entries of its X-Forwarded-For header
\* (none when the header is absent) and the rest of the request.
Requests == [xff : SeqsUpTo(XffEntries, MaxXff), rest : Rests]

\* HashMap::new() / HashMap::clear(): no key at all.
EmptyMap == [c \in {} |-> 0]

\* The counter of `ip` in `map`, 0 when the map has no entry for it.
CountIn(map, ip) == IF ip \in DOMAIN map THEN map[ip] ELSE 0
Count(ip) == CountIn(rate_limit_map, ip)

\* ------------------------------------------------------------------ main
\* Faulty variant: the set is created empty and left to the first health check.
InitialAliveEmpty(addresses) == {}

\* main: at least one upstream (else exit(1)); alive_upstreams starts as the
\* configured list collected into a set, rate_limit_map starts empty.
InitialAlive(addresses) == Range(addresses)

\* parallel_map is not called.
ParallelMapAtRest ==
    /\ input_vec = <<>>
    /\ num_threads = 0
    /\ sent = 0
    /\ input_sender = FALSE
    /\ input_channel = <<>>
    /\ output_channel = <<>>
    /\ worker_pc = [w \in {} |-> "exited"]
    /\ worker_input = [w \in {} |-> 0]
    /\ output_vec = <<>>
    /\ main_pc = "rest"

\* `None` and `Some(value)` as returned by pop_front.
None == [some |-> FALSE, value |-> 0]
Some(value) == [some |-> TRUE, value |-> value]

\* LinkedList::new(): no node, size 0.  Nothing is pushed or popped yet.
LinkedListNew ==
    /\ head = 0
    /\ size = 0
    /\ nodes = [id \in {} |-> 0]
    /\ last_op = "new"
    /\ last_popped = None
    /\ pushed = <<>>

\* get_next_command has not returned a command yet.
NoCommand == [kind |-> "none"]

\* Debugger::new(): no inferior, no breakpoint, no child process.
DebuggerNew ==
    /\ inferior = "None"
    /\ breakpoints = {}
    /\ child = "none"
    /\ live = 0
    /\ command = NoCommand
    /\ last_read = [kind |-> "none"]
    /\ printed = ""

\* deet is not started.
DeetAtRest == DebuggerNew /\ debugger = "rest"

\* The other programs do not run.
OthersAtRest == ParallelMapAtRest /\ LinkedListNew /\ DeetAtRest

\* The proxy after main has built its state, with no connection accepted yet.
ProxyStart ==
    /\ upstream_addresses \in {s \in SeqsUpTo(Addrs, MaxUpstreams) : Len(s) >= 1}
    /\ max_requests_per_minute \in 0..MaxThreshold
    /\ alive_upstreams = InitialAlive(upstream_addresses)
    /\ alive_writer = "none"
    /\ rate_limit_map = EmptyMap
    /\ map_owner = 0
    /\ hc_next = 0
    /\ pc = [h \in Conns |-> "idle"]
    /\ client_ip = [h \in Conns |-> "none"]
    /\ upstream_ip = [h \in Conns |-> "none"]
    /\ round_ok = {}
    /\ all_failed = FALSE
    /\ settled_upstreams = alive_upstreams
    /\ doomed = [h \in Conns |-> FALSE]
    /\ window_checks = ZeroCounts
    /\ window_admits = ZeroCounts
    /\ window_fwd = 0
    /\ prev_admits = 0
    /\ rejections = 0
    /\ listening = TRUE
    /\ request = NoRequest
    /\ upstream_wire = NoRequest
    /\ read_outcome = "none"
    /\ pending = 0
    /\ unread = 0
    /\ served = FALSE
    /\ b_only = FALSE
    /\ routed = [h \in Conns |-> FALSE]
    /\ attempts = 0
    /\ observe \in SUBSET {"upstream", "rate", "forwarded", "burst", "rejections",
                           "loop", "header", "route", "retries"}

Init == ProxyStart /\ OthersAtRest

\* The proxy does not run: its variables stay as one of its starts left them.
ProxyAtRest ==
    ProxyStart /\ upstream_addresses = <<"A">> /\ max_requests_per_minute = 0
               /\ observe = {}

\* ------------------------------------------------------------------ ramte_limit_map_clear
\* Faulty variant: the clear drops only the entries that are over the threshold.
ClearedOverLimitOnly(map) ==
    [c \in {d \in DOMAIN map : map[d] <= max_requests_per_minute} |-> map[c]]

\* `rate_limit_map.clear()`
Cleared(map) == EmptyMap

\* One wakeup of the reset loop: lock the map, clear it, drop the guard.
ramte_limit_map_clear ==
    /\ map_owner = 0
    /\ rate_limit_map' = Cleared(rate_limit_map)
    /\ prev_admits' = Recorded(ObserveBurst, window_admits[Watched], prev_admits)
    /\ window_checks' = ZeroCounts
    /\ window_admits' = ZeroCounts
    /\ window_fwd' = 0
    /\ UNCHANGED <<configVars, otherPrograms, watchVars, upstreamVars, map_owner, pc, client_ip, upstream_ip, doomed,
                   rejections>>

\* ------------------------------------------------------------------ health_check
\* The RwLock grants a read or a write guard only while no write guard is held.
\* (Read guards are never held across a suspension, so none is ever in the way.)
WriteGuardFree == alive_writer = "none"

\* Faulty variant: the guard is a temporary of the `clear()` statement and drops right after it.
RoundGuardDropped == "none"

\* `let mut alive_upstreams = ...write().await` binds the guard for the whole
\* loop body: it is held by health_check until the round's last probe is done.
RoundGuard == "health_check"

\* A round starts: the write guard is taken and the set is cleared; the guard
\* is kept across the probes' suspensions.
HealthCheckBegin ==
    /\ hc_next = 0
    /\ WriteGuardFree
    /\ alive_writer' = RoundGuard
    /\ alive_upstreams' = {}
    /\ hc_next' = 1
    /\ round_ok' = Recorded(ObserveUpstream, {}, round_ok)
    /\ UNCHANGED <<configVars, otherPrograms, watchVars, all_failed, settled_upstreams, rateVars, pc, client_ip,
                   upstream_ip, historyVars>>

\* Faulty variant: the probe inserts the address of the stream's peer, not the configured string.
ProbeResultPeerAddr(alive, ip, outcome) ==
    IF outcome = "200" THEN alive \cup {"peer_addr"} ELSE alive

\* Faulty variant: the probe inserts the upstream whenever a response was read, whatever its status.
ProbeResultAnyStatus(alive, ip, outcome) ==
    IF outcome \in {"200", "500"} THEN alive \cup {ip} ELSE alive

\* Faulty variant: only the upstreams that were alive before the round are probed.
ProbeResultIfWasAlive(alive, ip, outcome) ==
    IF outcome = "200" /\ ip \in settled_upstreams THEN alive \cup {ip} ELSE alive

\* What one probe does to the set: the upstream is inserted on status 200 only.
ProbeResult(alive, ip, outcome) ==
    IF outcome = "200" THEN alive \cup {ip} ELSE alive

\* One probe of the round; after the last one the guard drops at the end of
\* the loop body, without suspending in between.
HealthCheckProbe(outcome) ==
    /\ hc_next >= 1
    /\ LET ip == upstream_addresses[hc_next]
           last == hc_next = Len(upstream_addresses)
       IN  /\ alive_upstreams' = ProbeResult(alive_upstreams, ip, outcome)
           /\ round_ok' = Recorded(ObserveUpstream /\ outcome = "200", round_ok \cup {ip}, round_ok)
           /\ hc_next' = IF last THEN 0 ELSE hc_next + 1
           /\ alive_writer' = IF last THEN "none" ELSE alive_writer
           /\ all_failed' = Recorded(ObserveUpstream /\ last, round_ok' = {}, all_failed)
           /\ settled_upstreams' = Recorded(ObserveUpstream /\ last, alive_upstreams', settled_upstreams)
           /\ b_only' = Recorded(ObserveRoute /\ last, round_ok' = {"B"}, b_only)
           /\ attempts' = Recorded(ObserveRetries /\ last, 0, attempts)
    /\ UNCHANGED <<configVars, otherPrograms, listening, loopVars, headerVars, routed, rateVars, pc, client_ip,
                   upstream_ip, historyVars>>

\* ------------------------------------------------------------------ connect_to_upstream
\* Faulty variant: the draw is made from the configured list, as before liveness was tracked.
DrawnFromConfigured(alive) == Range(upstream_addresses)

\* The candidates of one draw: the clone of the set made under the read guard.
Drawn(alive) == alive

\* One pass of the loop from the granted read guard to the next suspension:
\* clone the set, draw from the clone, drop the guard, start the connect.  With
\* nothing to draw the function returns Err and handle_connection goes on to
\* answer 502.
Draw(h) ==
    IF Drawn(alive_upstreams) = {}
    THEN /\ pc' = [pc EXCEPT ![h] = "send502"]
         /\ UNCHANGED upstream_ip
    ELSE \E ip \in Drawn(alive_upstreams) :
         /\ pc' = [pc EXCEPT ![h] = "connecting"]
         /\ upstream_ip' = [upstream_ip EXCEPT ![h] = ip]

\* main's accept loop yields a connection from `ip` and spawns its task;
\* handle_connection runs into connect_to_upstream.  The read guard is granted
\* at once when no write guard is held, else the task suspends on it.
Accept(h, ip) ==
    /\ listening
    /\ pc[h] = "idle"
    /\ \A g \in Conns : g < h => pc[g] # "idle"     \* connections are numbered in the order of acceptance
    /\ client_ip' = [client_ip EXCEPT ![h] = ip]
    /\ doomed' = Recorded(ObserveUpstream, [doomed EXCEPT ![h] = all_failed], doomed)
    /\ routed' = Recorded(ObserveRoute, [routed EXCEPT ![h] = b_only], routed)
    /\ IF WriteGuardFree
       THEN Draw(h)
       ELSE /\ pc' = [pc EXCEPT ![h] = "select"]
            /\ UNCHANGED upstream_ip
    /\ UNCHANGED <<configVars, otherPrograms, listening, attempts, loopVars, headerVars, b_only, upstreamVars, rateVars,
                   window_fwd, rejections>>

\* `if let Ok(..) = listener.accept().await` has no else: the loop goes on.
AfterAcceptError == TRUE

\* listener.accept() returns Err: nothing is spawned.
AcceptFailed ==
    /\ listening
    /\ listening' = AfterAcceptError
    /\ UNCHANGED <<configVars, otherPrograms, attempts, loopVars, headerVars, routeVars, upstreamVars, rateVars, pc,
                   client_ip, upstream_ip, historyVars>>

\* A task suspended on alive_upstreams.read() is granted the guard, or a task
\* that looped after a removal takes it.
Select(h) ==
    /\ pc[h] = "select"
    /\ WriteGuardFree
    /\ Draw(h)
    /\ UNCHANGED <<configVars, otherPrograms, watchVars, upstreamVars, rateVars, client_ip, historyVars>>

\* TcpStream::connect(upstream_ip).await returns.
Connect(h, ok) ==
    /\ pc[h] = "connecting"
    /\ pc' = [pc EXCEPT ![h] = IF ok THEN "read" ELSE "remove"]
    /\ doomed' = [doomed EXCEPT ![h] = FALSE]
    /\ attempts' = OnWatched(h, ObserveRetries,
                             IF ok THEN 0 ELSE Inc(attempts, MaxUpstreams + 1), attempts)
    /\ UNCHANGED <<configVars, otherPrograms, listening, loopVars, headerVars, routeVars, upstreamVars, rateVars,
                   client_ip, upstream_ip, window_fwd, rejections>>

\* Faulty variant: the address whose connect failed stays in the set.
RemovedNothing(alive, ip) == alive

\* HashSet::remove of the address whose connect failed.
Removed(alive, ip) == alive \ {ip}

\* Faulty variant: a failed connect is final, the handler does not retry.
AfterRemoveGiveUp(alive) == "send502"

\* `if alive_upstreams.len() == 0 { return Err(err) }`, else the loop goes on.
AfterRemove(alive) == IF alive = {} THEN "send502" ELSE "select"

\* After a failed connect: take the write guard, remove the address, give up
\* with Err when the set is now empty, else drop the guard and loop.
Remove(h) ==
    /\ pc[h] = "remove"
    /\ WriteGuardFree
    /\ alive_upstreams' = Removed(alive_upstreams, upstream_ip[h])
    /\ settled_upstreams' = Recorded(ObserveUpstream, alive_upstreams', settled_upstreams)
    /\ pc' = [pc EXCEPT ![h] = AfterRemove(alive_upstreams')]
    /\ upstream_ip' = [upstream_ip EXCEPT ![h] = "none"]
    /\ UNCHANGED <<configVars, otherPrograms, watchVars, alive_writer, hc_next, round_ok, all_failed, rateVars,
                   client_ip, historyVars>>

\* ------------------------------------------------------------------ handle_connection
\* Faulty variant: a failure in one handler ends the whole process.
ClosedAll(h) ==
    /\ pc' = [g \in Conns |-> "closed"]
    /\ client_ip' = [client_ip EXCEPT ![h] = "none"]
    /\ upstream_ip' = [upstream_ip EXCEPT ![h] = "none"]
    /\ doomed' = [doomed EXCEPT ![h] = FALSE]
    /\ routed' = [routed EXCEPT ![h] = FALSE]
    /\ rejections' = IF h = WatchedConn THEN 0 ELSE rejections
    /\ request' = IF h = WatchedConn THEN NoRequest ELSE request
    /\ upstream_wire' = IF h = WatchedConn THEN NoRequest ELSE upstream_wire
    /\ pending' = IF h = WatchedConn THEN 0 ELSE pending
    /\ unread' = IF h = WatchedConn THEN 0 ELSE unread
    /\ served' = IF h = WatchedConn THEN FALSE ELSE served
    /\ attempts' = IF h = WatchedConn THEN 0 ELSE attempts

\* The handler returns: both sockets are dropped.
Closed(h) ==
    /\ pc' = [pc EXCEPT ![h] = "closed"]
    /\ client_ip' = [client_ip EXCEPT ![h] = "none"]
    /\ upstream_ip' = [upstream_ip EXCEPT ![h] = "none"]
    /\ doomed' = [doomed EXCEPT ![h] = FALSE]
    /\ routed' = [routed EXCEPT ![h] = FALSE]
    /\ rejections' = IF h = WatchedConn THEN 0 ELSE rejections
    /\ request' = IF h = WatchedConn THEN NoRequest ELSE request
    /\ upstream_wire' = IF h = WatchedConn THEN NoRequest ELSE upstream_wire
    /\ pending' = IF h = WatchedConn THEN 0 ELSE pending
    /\ unread' = IF h = WatchedConn THEN 0 ELSE unread
    /\ served' = IF h = WatchedConn THEN FALSE ELSE served
    /\ attempts' = IF h = WatchedConn THEN 0 ELSE attempts

\* send_response of the 502 made for a failed connect_to_upstream, a failed
\* upstream write or a failed upstream read; then return.
Send502(h) ==
    /\ pc[h] = "send502"
    /\ Closed(h)
    /\ read_outcome' = IF h = WatchedConn THEN "none" ELSE read_outcome
    /\ UNCHANGED <<configVars, otherPrograms, listening, b_only, upstreamVars, rateVars, window_fwd>>

\* Faulty variant: the limiter runs whatever the threshold.
RateLimitAlways == max_requests_per_minute >= 0

\* `if state.max_requests_per_minute > 0`
RateLimitEnabled == max_requests_per_minute > 0

\* Faulty variant: an oversized body is answered like any other bad request.
AfterReadTooLarge400(outcome) ==
    CASE outcome = "ok" -> IF RateLimitEnabled THEN "ratelimit" ELSE "forward"
      [] outcome = "eof" -> "closed"
      [] outcome = "io_err" -> "closed"
      [] outcome \in BadRequests -> "send400"
      [] outcome = "too_large" -> "send400"

\* Faulty variant: a client-stream I/O error falls through to the arm that answers.
AfterReadIoErrAnswered(outcome) ==
    CASE outcome = "ok" -> IF RateLimitEnabled THEN "ratelimit" ELSE "forward"
      [] outcome = "eof" -> "closed"
      [] outcome = "io_err" -> "send400"
      [] outcome \in BadRequests -> "send400"
      [] outcome = "too_large" -> "send413"

\* Where the loop goes after request::read_from_stream returned `outcome`.
AfterRead(outcome) ==
    CASE outcome = "ok" -> IF RateLimitEnabled THEN "ratelimit" ELSE "forward"
      [] outcome = "eof" -> "closed"
      [] outcome = "io_err" -> "closed"
      [] outcome \in BadRequests -> "send400"
      [] outcome = "too_large" -> "send413"

\* request::read_from_stream(&mut client_conn).await returns.
ReadRequest(h, outcome) ==
    /\ pc[h] = "read"
    /\ read_outcome' = OnWatched(h, ObserveLoop, outcome, read_outcome)
    /\ IF AfterRead(outcome) = "closed"
       THEN Closed(h)
       ELSE /\ pc' = [pc EXCEPT ![h] = AfterRead(outcome)]
            /\ request' \in IF ObserveHeader /\ h = WatchedConn /\ outcome = "ok"
                            THEN Requests ELSE {request}
            /\ pending' = OnWatched(h, ObserveLoop, Inc(pending, MaxPending), pending)
            /\ UNCHANGED <<client_ip, upstream_ip, doomed, routed, rejections,
                           upstream_wire, unread, served, attempts>>
    /\ UNCHANGED <<configVars, otherPrograms, listening, b_only, upstreamVars, rateVars, window_fwd>>

\* send_response of the 400 or 413 made for a request the codec rejected; continue.
SendClientError(h) ==
    /\ pc[h] \in {"send400", "send413"}
    /\ pc' = [pc EXCEPT ![h] = "read"]
    /\ pending' = OnWatched(h, ObserveLoop, Dec(pending), pending)
    /\ read_outcome' = IF h = WatchedConn THEN "none" ELSE read_outcome
    /\ UNCHANGED <<configVars, otherPrograms, listening, attempts, headerVars, routeVars, upstreamVars, rateVars,
                   client_ip, upstream_ip, historyVars, unread, served>>

\* Faulty variant: the counter is kept per connection, not per client address.
RateKeyPerConnection(h) == ToString(h)

\* The map's key for a request on connection h: `client_ip.to_string()`.
RateKey(h) == client_ip[h]

\* Faulty variant: a counter that is already over the threshold is left as it is.
IncrementedUnlessOver(map, ip) ==
    IF ip \in DOMAIN map /\ map[ip] > max_requests_per_minute
    THEN map
    ELSE [c \in DOMAIN map \cup {ip} |->
            IF c = ip THEN (IF ip \in DOMAIN map THEN map[ip] ELSE 0) + 1 ELSE map[c]]

\* Faulty variant: the map is replaced by one that holds the incremented entry only.
IncrementedAlone(map, ip) ==
    [c \in {ip} |-> (IF ip \in DOMAIN map THEN map[ip] ELSE 0) + 1]

\* `entry(key).or_insert(0)` followed by `*cnt += 1`.
Incremented(map, ip) ==
    [c \in DOMAIN map \cup {ip} |->
        IF c = ip THEN (IF ip \in DOMAIN map THEN map[ip] ELSE 0) + 1 ELSE map[c]]

\* Faulty variant: the comparison is off by one.
ExceedsOrEquals(cnt, threshold) == cnt >= threshold

\* `*cnt > state.max_requests_per_minute`
Exceeds(cnt, threshold) == cnt > threshold

\* The rate-limit block once the Mutex is granted: increment and compare.  An
\* admitted request leaves the block, dropping the guard; a rejected one
\* suspends on the write of the 429 inside the block, the guard still held.
RateLimitCheck(h) ==
    /\ pc[h] = "ratelimit"
    /\ map_owner = 0
    /\ Count(RateKey(h)) < MaxCount
    /\ LET ip == client_ip[h]
           map == Incremented(rate_limit_map, RateKey(h))
           rejected == Exceeds(map[RateKey(h)], max_requests_per_minute)
       IN  /\ rate_limit_map' = map
           /\ pc' = [pc EXCEPT ![h] = IF rejected THEN "write429" ELSE "forward"]
           /\ map_owner' = IF rejected THEN h ELSE 0
           /\ window_checks' = Recorded(ObserveRate, [window_checks EXCEPT ![ip] = @ + 1],
                                         window_checks)
           /\ window_admits' = Recorded(ObserveRate /\ ~rejected,
                                         [window_admits EXCEPT ![ip] = @ + 1], window_admits)
    /\ UNCHANGED <<configVars, otherPrograms, watchVars, upstreamVars,
                   prev_admits, client_ip, upstream_ip, historyVars>>

\* Faulty variant: the handler returns after a rejection.
AfterRejectReturn == "closed"

\* Where the loop goes once the 429 is written (or its write failed): `continue`.
AfterReject == "read"

\* response::write_to_stream of the 429 returns; the block ends, the guard
\* drops, and `continue` drops the request.
Write429(h) ==
    /\ pc[h] = "write429"
    /\ pc' = [pc EXCEPT ![h] = AfterReject]
    /\ map_owner' = IF map_owner = h THEN 0 ELSE map_owner
    /\ rejections' = Recorded(ObserveRejections /\ h = WatchedConn, 1, rejections)
    /\ pending' = OnWatched(h, ObserveLoop, Dec(pending), pending)
    /\ request' = IF h = WatchedConn THEN NoRequest ELSE request
    /\ read_outcome' = IF h = WatchedConn THEN "none" ELSE read_outcome
    /\ UNCHANGED <<configVars, otherPrograms, listening, attempts, routeVars, upstreamVars, rate_limit_map,
                   window_checks, window_admits, prev_admits, client_ip, upstream_ip,
                   doomed, window_fwd, upstream_wire, unread, served>>

\* extend_header_value(request, "x-forwarded-for", ip): the header is created
\* with `ip` when the request has none, else `ip` is appended to its entries.
ExtendHeaderValue(req, ip) ==
    [req EXCEPT !.xff = IF req.xff = <<>> THEN <<ip>> ELSE Append(req.xff, ip)]

\* Faulty variant: the header is extended with the address of the upstream.
ForwardedRequestUpstreamIp(h) == ExtendHeaderValue(request, upstream_ip[h])

\* The request as written to upstream_conn: extended with client_ip.
ForwardedRequest(h) == ExtendHeaderValue(request, client_ip[h])

\* Faulty variant: after a failed upstream write or read the handler takes the
\* removal path of connect_to_upstream.
AfterUpstreamErrorRemove == "remove"

\* A failed upstream write or read: a 502 is made for the client, then return.
AfterUpstreamError == "send502"

\* Faulty variant: the next request is read as soon as this one is written.
AfterForwardPipelined == "read"

\* After the request is written the handler reads the upstream's response.
AfterForward == "readresp"

\* extend_header_value, then request::write_to_stream(&request, &mut upstream_conn).await
\* returns: on Err a 502 is made for the client.
ForwardRequest(h, ok) ==
    /\ pc[h] = "forward"
    /\ IF ok
       THEN /\ window_fwd < MaxCount
            /\ window_fwd' = Recorded(ObserveForwarded /\ client_ip[h] = Watched,
                                       window_fwd + 1, window_fwd)
            /\ pc' = [pc EXCEPT ![h] = AfterForward]
            /\ upstream_wire' = OnWatched(h, ObserveHeader, ForwardedRequest(h), upstream_wire)
            /\ unread' = OnWatched(h, ObserveLoop, Inc(unread, MaxPending), unread)
       ELSE /\ pc' = [pc EXCEPT ![h] = AfterUpstreamError]
            /\ UNCHANGED <<window_fwd, upstream_wire, unread>>
    /\ UNCHANGED <<configVars, otherPrograms, listening, attempts, routeVars, upstreamVars, rateVars, client_ip,
                   upstream_ip, doomed, rejections, request, read_outcome, pending, served>>

\* response::read_from_stream(&mut upstream_conn, ..).await returns.
ReadResponse(h, ok) ==
    /\ pc[h] = "readresp"
    /\ pc' = [pc EXCEPT ![h] = IF ok THEN "relay" ELSE AfterUpstreamError]
    /\ unread' = OnWatched(h, ObserveLoop /\ ok, Dec(unread), unread)
    /\ UNCHANGED <<configVars, otherPrograms, listening, attempts, headerVars, routeVars, upstreamVars, rateVars,
                   client_ip, upstream_ip, historyVars, read_outcome, pending, served>>

\* Faulty variant: the handler picks an upstream again for the next request.
AfterRelayReselect == "select"

\* The end of the loop body: the next iteration reads the next request.
AfterRelay == "read"

\* send_response of the upstream's response; the request is dropped and the
\* loop starts over.
RelayResponse(h) ==
    /\ pc[h] = "relay"
    /\ pc' = [pc EXCEPT ![h] = AfterRelay]
    /\ pending' = OnWatched(h, ObserveLoop, Dec(pending), pending)
    /\ request' = IF h = WatchedConn THEN NoRequest ELSE request
    /\ upstream_wire' = IF h = WatchedConn THEN NoRequest ELSE upstream_wire
    /\ read_outcome' = IF h = WatchedConn THEN "none" ELSE read_outcome
    /\ served' = OnWatched(h, ObserveLoop, TRUE, served)
    /\ UNCHANGED <<configVars, otherPrograms, listening, attempts, routeVars, upstreamVars, rateVars, client_ip,
                   upstream_ip, historyVars, unread>>

\* ------------------------------------------------------------------ specification
\* The four kinds of bad request differ only in what the history records of
\* them: where it records nothing, one kind stands for the four.
ReadOutcomes ==
    IF ObserveLoop THEN RequestOutcomes
    ELSE {o \in RequestOutcomes : o \notin BadRequests \/ o = "malformed"}

\* The steps of the Health Monitor.
Monitor ==
    \/ HealthCheckBegin
    \/ \E outcome \in ProbeOutcomes : HealthCheckProbe(outcome)

\* The steps of a handler once it has drawn an upstream, without the limiter's.
Proceed ==
    \/ \E h \in Conns, ok \in BOOLEAN : Connect(h, ok)
    \/ \E h \in Conns : Remove(h)
    \/ \E h \in Conns : Send502(h)
    \/ \E h \in Conns, outcome \in ReadOutcomes : ReadRequest(h, outcome)
    \/ \E h \in Conns : SendClientError(h)
    \/ \E h \in Conns, ok \in BOOLEAN : ForwardRequest(h, ok)
    \/ \E h \in Conns, ok \in BOOLEAN : ReadResponse(h, ok)
    \/ \E h \in Conns : RelayResponse(h)

\* The steps of a handler, without the limiter's.
Handle ==
    \/ \E h \in Conns : Select(h)
    \/ Proceed

\* The steps of the tasks once a connection is accepted, without the limiter's.
Serve ==
    \/ ramte_limit_map_clear
    \/ Monitor
    \/ Handle

\* The steps of the limiter.
Limit ==
    \/ \E h \in Conns : RateLimitCheck(h)
    \/ \E h \in Conns : Write429(h)

Next ==
    \/ \E h \in Conns, ip \in Clients : Accept(h, ip)
    \/ AcceptFailed
    \/ Serve
    \/ Limit

\* The whole program, every configuration within the bounds.
Spec == Init /\ [][Next]_vars

\* The limiter off (the default threshold, 0): its steps are never enabled, and
\* no step reads a client's address, so one client stands for all.  No step
\* reads an upstream's name either: the first one configured is called A.
InitUpstream ==
    Init /\ max_requests_per_minute = 0 /\ observe = {"upstream"}
         /\ upstream_addresses[1] = "A"
NextUpstream ==
    \/ \E h \in Conns : Accept(h, Watched)
    \/ Serve
SpecUpstream == InitUpstream /\ [][NextUpstream]_vars

\* The limiter's side of the program: the Health Monitor, whose steps change
\* nothing the limiter reads, stays asleep, and no accept fails.  In front of
\* one upstream no handler then waits for the set or draws a second time.
NextLimiter ==
    \/ \E h \in Conns, ip \in Clients : Accept(h, ip)
    \/ ramte_limit_map_clear
    \/ Proceed
    \/ Limit

\* The limiter in front of one upstream, with the history of the windows.
InitBurst == Init /\ upstream_addresses = <<"A">> /\ observe = {"rate", "burst"}
SpecBurst == InitBurst /\ [][NextLimiter]_vars

\* The limiter in front of one upstream, with the history of the forwarded requests.
InitForwarded == Init /\ upstream_addresses = <<"A">> /\ observe = {"rate", "forwarded"}
SpecForwarded == InitForwarded /\ [][NextLimiter]_vars

\* The limiter in front of two upstreams, every connection from one client,
\* with the history of one connection's rejections.
InitKeepAlive ==
    Init /\ upstream_addresses = <<"A", "B">> /\ max_requests_per_minute = 1
         /\ observe = {"rejections"}
NextKeepAlive ==
    \/ \E h \in Conns : Accept(h, Watched)
    \/ Serve
    \/ Limit
SpecKeepAlive == InitKeepAlive /\ [][NextKeepAlive]_vars

\* The request loop of one connection in front of two upstreams, every
\* connection from one client, with the history of the watched connection's
\* requests and with the failures of accept.
InitLoop ==
    Init /\ upstream_addresses = <<"A", "B">> /\ max_requests_per_minute = 1
         /\ observe = {"loop"}
NextLoop ==
    \/ \E h \in Conns : Accept(h, Watched)
    \/ AcceptFailed
    \/ Serve
    \/ Limit
SpecLoop == InitLoop /\ [][NextLoop]_vars

\* Upstreams A and B with the limiter off, with the history of the rounds in
\* which only B answered 200.
InitRoute ==
    Init /\ upstream_addresses = <<"A", "B">> /\ max_requests_per_minute = 0
         /\ observe = {"upstream", "route"}
SpecRoute == InitRoute /\ [][NextUpstream]_vars

\* The limiter in front of one upstream, every connection from one client,
\* with the watched connection's request as read and as written.
InitHeader ==
    Init /\ upstream_addresses = <<"A">> /\ max_requests_per_minute = 1
         /\ observe = {"header"}
SpecHeader == InitHeader /\ [][NextKeepAlive]_vars

\* The limiter off, with the history of the watched connection's failed connects.
InitRetry ==
    Init /\ max_requests_per_minute = 0 /\ observe = {"retries"}
         /\ upstream_addresses[1] = "A"

\* What the runtime guarantees of the tasks' progress.  A timer that was set
\* fires, and a task that is ready is run; the Mutex and the RwLock grant their
\* waiters in the order of their requests, so a task waiting for a lock that
\* is released again and again gets it.  The probes of the Health Monitor and
\* the handlers' connects to an upstream end with a result.  Nothing is
\* guaranteed of the reads from and the writes to a client's socket, nor of
\* the reads from and the writes to an upstream's: they wait for the peer.
Fairness ==
    /\ SF_vars(ramte_limit_map_clear)
    /\ WF_vars(HealthCheckBegin)
    /\ WF_vars(\E outcome \in ProbeOutcomes : HealthCheckProbe(outcome))
    /\ \A h \in Conns :
          /\ SF_vars(Select(h))
          /\ WF_vars(\E ok \in BOOLEAN : Connect(h, ok))
          /\ SF_vars(Remove(h))
          /\ SF_vars(RateLimitCheck(h))

\* The limiter in front of two upstreams, every connection from one client,
\* no history, with the progress the runtime guarantees.
InitFair ==
    Init /\ upstream_addresses = <<"A", "B">> /\ max_requests_per_minute = 1
         /\ observe = {}
SpecFair == InitFair /\ [][NextKeepAlive]_vars /\ Fairness

\* The failed connects of the watched connection, under the same guarantees.
SpecRetry == InitRetry /\ [][NextUpstream]_vars /\ Fairness

\* ================================================================== parallel_map
\* The elements an input vector may hold.
Values == {1, 2}

\* The closure main passes: `num * num`.
F(x) == x * x

\* The worker threads, spawned before the first input is sent.
Workers == 1..num_threads

\* `bounded(input_vec.len())`: the capacity of either channel.
ChannelCapacity == Len(input_vec)

\* `Vec::with_capacity(input_vec.len())`: the capacity the collecting loop compares with.
OutputCapacity == Len(input_vec)

\* How often `v` occurs in the sequence `s`.
Occurrences(s, v) == Cardinality({i \in 1..Len(s) : s[i] = v})

\* parallel_map is called: the channels are made and the workers spawned,
\* each with a clone of the input's receiver and of the output's sender.
ParallelMapStart ==
    /\ input_vec \in SeqsUpTo(Values, MaxInput)
    /\ num_threads \in 1..MaxThreads
    /\ sent = 0
    /\ input_sender = TRUE
    /\ input_channel = <<>>
    /\ output_channel = <<>>
    /\ worker_pc = [w \in 1..num_threads |-> "recv"]
    /\ worker_input = [w \in 1..num_threads |-> 0]
    /\ output_vec = <<>>
    /\ main_pc = "send"

\* The proxy's variables, which no step of another program changes.
proxyVars ==
    <<configVars, upstreamVars, rateVars, historyVars, watchVars, pc, client_ip, upstream_ip>>

\* `input_sender.send(input).unwrap()` for the next element of `drain(..)`.
MainSend ==
    /\ main_pc = "send"
    /\ sent < Len(input_vec)
    /\ Len(input_channel) < ChannelCapacity
    /\ input_channel' = Append(input_channel, input_vec[sent + 1])
    /\ sent' = sent + 1
    /\ UNCHANGED <<proxyVars, input_vec, num_threads, input_sender, output_channel,
                   worker_pc, worker_input, output_vec, main_pc, listVars, deetVars>>

\* `drop(input_sender)` once every element is sent.
MainDropSender ==
    /\ main_pc = "send"
    /\ sent = Len(input_vec)
    /\ input_sender' = FALSE
    /\ main_pc' = "collect"
    /\ UNCHANGED <<proxyVars, input_vec, num_threads, sent, input_channel, output_channel,
                   worker_pc, worker_input, output_vec, listVars, deetVars>>

\* Faulty variant: a receive leaves the message in the channel for the next receiver.
ReceivedPeek(channel) == channel

\* What a receive leaves in the channel: all but the oldest message.
Received(channel) == Tail(channel)

\* `input_receiver.recv()` returns Ok(input) in worker w.
WorkerRecv(w) ==
    /\ worker_pc[w] = "recv"
    /\ input_channel # <<>>
    /\ worker_input' = [worker_input EXCEPT ![w] = Head(input_channel)]
    /\ input_channel' = Received(input_channel)
    /\ worker_pc' = [worker_pc EXCEPT ![w] = "send"]
    /\ UNCHANGED <<proxyVars, input_vec, num_threads, sent, input_sender, output_channel,
                   output_vec, main_pc, listVars, deetVars>>

\* `input_receiver.recv()` returns Err in worker w: the channel is empty and
\* its only sender is dropped.  The thread ends and drops its output sender.
WorkerExit(w) ==
    /\ worker_pc[w] = "recv"
    /\ input_channel = <<>>
    /\ ~input_sender
    /\ worker_pc' = [worker_pc EXCEPT ![w] = "exited"]
    /\ UNCHANGED <<proxyVars, input_vec, num_threads, sent, input_sender, input_channel,
                   output_channel, worker_input, output_vec, main_pc, listVars, deetVars>>

\* `output_sender.send(f(input)).unwrap()` in worker w.
WorkerSend(w) ==
    /\ worker_pc[w] = "send"
    /\ Len(output_channel) < ChannelCapacity
    /\ output_channel' = Append(output_channel, F(worker_input[w]))
    /\ worker_pc' = [worker_pc EXCEPT ![w] = "recv"]
    /\ worker_input' = [worker_input EXCEPT ![w] = 0]
    /\ UNCHANGED <<proxyVars, input_vec, num_threads, sent, input_sender, input_channel,
                   output_vec, main_pc, listVars, deetVars>>

\* The `output_sender` made by `bounded` stays a local of parallel_map until it returns.
MainHoldsOutputSender == TRUE

\* `output_receiver.recv()` returns Err only when the channel is empty and no
\* sender of it is left: neither main's nor the clone of a running worker.
OutputDisconnected ==
    /\ output_channel = <<>>
    /\ ~MainHoldsOutputSender
    /\ \A w \in Workers : worker_pc[w] = "exited"

\* One turn of the collecting loop: a result is received and pushed, and the
\* loop breaks when the vector is as long as its capacity; or the receive
\* fails and the loop ends.
MainCollect ==
    /\ main_pc = "collect"
    /\ IF output_channel # <<>>
       THEN /\ output_vec' = Append(output_vec, Head(output_channel))
            /\ output_channel' = Received(output_channel)
            /\ main_pc' = IF Len(output_vec') = OutputCapacity THEN "returned" ELSE "collect"
       ELSE /\ OutputDisconnected
            /\ main_pc' = "returned"
            /\ UNCHANGED <<output_vec, output_channel>>
    /\ UNCHANGED <<proxyVars, input_vec, num_threads, sent, input_sender, input_channel,
                   worker_pc, worker_input, listVars, deetVars>>

NextParallelMap ==
    \/ MainSend
    \/ MainDropSender
    \/ \E w \in Workers : WorkerRecv(w)
    \/ \E w \in Workers : WorkerExit(w)
    \/ \E w \in Workers : WorkerSend(w)
    \/ MainCollect

\* One call of parallel_map, for every input vector and number of threads
\* within the bounds.
InitParallelMap == ProxyAtRest /\ ParallelMapStart /\ LinkedListNew /\ DeetAtRest
SpecParallelMap == InitParallelMap /\ [][NextParallelMap]_vars

\* ================================================================== linked_list
\* The values a list may hold.
Items == {1, 2, 3}

\* The number of nodes on the chain that starts at node `id` (0 = None).
RECURSIVE ChainLength(_, _)
ChainLength(heap, id) == IF id = 0 THEN 0 ELSE 1 + ChainLength(heap, heap[id].next)

\* The values on the chain that starts at node `id`, in the chain's order.
RECURSIVE ChainValues(_, _)
ChainValues(heap, id) ==
    IF id = 0 THEN <<>> ELSE <<heap[id].value>> \o ChainValues(heap, heap[id].next)

\* get_size: `self.size`.
get_size == size

\* is_empty: `self.get_size() == 0`.
is_empty == get_size = 0

\* Box::new: the address of a fresh allocation, one that holds no live node.
FreshBox(heap) == CHOOSE id \in 1..MaxNodes : id \notin DOMAIN heap

\* Node::new(value, next)
NewNode(value, next) == [value |-> value, next |-> next]

\* push_front: a new node in front of the old head, `size += 1`.
push_front(value) ==
    /\ Cardinality(DOMAIN nodes) < MaxNodes
    /\ LET id == FreshBox(nodes)
       IN  /\ nodes' = [n \in DOMAIN nodes \cup {id} |->
                          IF n = id THEN NewNode(value, head) ELSE nodes[n]]
           /\ head' = id
    /\ size' = size + 1
    /\ last_op' = "push_front"
    /\ pushed' = <<value>> \o pushed
    /\ UNCHANGED <<proxyVars, mapVars, deetVars, last_popped>>

\* Faulty variant: the size is decremented before the head is looked at.
PoppedSizeAlways(old_head, old_size) == old_size - 1

\* `self.head.take()?` returns None from pop_front before `size -= 1` is
\* reached; with a node taken the size is decremented.
PoppedSize(old_head, old_size) == IF old_head = 0 THEN old_size ELSE old_size - 1

\* pop_front: take the head; with none return None, else the head becomes
\* the node's successor, the node's value is returned and its box freed.
pop_front ==
    /\ IF head = 0
       THEN /\ last_popped' = None
            /\ UNCHANGED <<head, nodes>>
       ELSE /\ last_popped' = Some(nodes[head].value)
            /\ head' = nodes[head].next
            /\ nodes' = [n \in DOMAIN nodes \ {head} |-> nodes[n]]
    /\ size' = PoppedSize(head, size)
    /\ last_op' = "pop_front"
    /\ pushed' = IF pushed = <<>> THEN pushed ELSE Tail(pushed)
    /\ UNCHANGED <<proxyVars, mapVars, deetVars>>

NextLinkedList ==
    \/ \E value \in Items : push_front(value)
    \/ pop_front

\* One list from LinkedList::new() on, under every sequence of push_front and
\* pop_front that keeps it within the bound.
InitLinkedList == ProxyAtRest /\ ParallelMapAtRest /\ LinkedListNew /\ DeetAtRest
SpecLinkedList == InitLinkedList /\ [][NextLinkedList]_vars

\* ================================================================== deet
\* A line and a word are sequences of characters.  The words typed at the
\* prompt: command names, an address with its star, and a word that is
\* neither.
Words ==
    { <<"q">>, <<"r", "u", "n">>, <<"c">>, <<"b", "t">>, <<"b">>,
      <<"b", "r", "e", "a", "k">>, <<"*", "1">>, <<"x">> }

Whitespace == {" "}

\* The words of `tokens` with one space between them.
RECURSIVE Joined(_)
Joined(tokens) ==
    IF tokens = <<>> THEN <<>>
    ELSE IF Len(tokens) = 1 THEN tokens[1]
    ELSE tokens[1] \o <<" ">> \o Joined(Tail(tokens))

\* The lines typed: up to MaxTokens words, as they are or after a space,
\* and the line of one space.
Lines ==
    LET typed == {Joined(tokens) : tokens \in SeqsUpTo(Words, MaxTokens)}
    IN  typed \cup {<<" ">> \o line : line \in typed}

\* What readline returns: a line, ctrl+c, ctrl+d or another error.
ReadlineResults ==
    {[kind |-> "Ok", line |-> line] : line \in Lines}
        \cup {[kind |-> "Interrupted"], [kind |-> "Eof"], [kind |-> "Io"]}

\* line.trim().len() == 0
IsBlank(line) == \A i \in 1..Len(line) : line[i] \in Whitespace

\* line.split_whitespace().collect(): the maximal runs of characters that
\* are not whitespace, in order.
RECURSIVE split_whitespace(_)
split_whitespace(line) ==
    IF line = <<>> THEN <<>>
    ELSE IF Head(line) \in Whitespace THEN split_whitespace(Tail(line))
    ELSE LET stops == {i \in 1..Len(line) : line[i] \in Whitespace}
             end == IF stops = {} THEN Len(line) + 1
                    ELSE CHOOSE i \in stops : \A j \in stops : i <= j
         IN  <<SubSeq(line, 1, end - 1)>> \o split_whitespace(SubSeq(line, end, Len(line)))

\* s.starts_with("*")
StartsWithStar(s) == s # <<>> /\ s[1] = "*"

\* What a call of from_tokens ends in: Some(command), None, or a panic.
Parsed(cmd) == [result |-> "Some", cmd |-> cmd, usage |-> FALSE]
Unparsed(usage) == [result |-> "None", cmd |-> NoCommand, usage |-> usage]
Panicked == [result |-> "panic", cmd |-> NoCommand, usage |-> FALSE]

\* DebuggerCommand::from_tokens.  `tokens[0]` and `args[0]` index a vector:
\* out of its bounds they panic.
from_tokens(tokens) ==
    IF Len(tokens) < 1 THEN Panicked
    ELSE LET word == tokens[1]
             args == Tail(tokens)
         IN  IF word \in {<<"q">>, <<"q", "u", "i", "t">>}
                 THEN Parsed([kind |-> "Quit"])
             ELSE IF word \in {<<"r">>, <<"r", "u", "n">>}
                 THEN Parsed([kind |-> "Run", args |-> args])
             ELSE IF word \in {<<"c">>, <<"c", "o", "n", "t">>,
                               <<"c", "o", "n", "t", "i", "n", "u", "e">>}
                 THEN Parsed([kind |-> "Continue"])
             ELSE IF word \in {<<"b", "t">>, <<"b", "a", "c", "k">>,
                               <<"b", "a", "c", "k", "t", "r", "a", "c", "e">>}
                 THEN Parsed([kind |-> "Backtrace"])
             ELSE IF word \in {<<"b">>, <<"b", "r", "e", "a", "k">>}
                 THEN IF Len(args) < 1 THEN Panicked
                      ELSE IF StartsWithStar(args[1])
                          THEN Parsed([kind |-> "Breakpoint", addr |-> Tail(args[1])])
                          ELSE Unparsed(TRUE)
             ELSE Unparsed(FALSE)

\* One turn of the loop of get_next_command: one call of readline and what
\* is made of its result.  The function returns when `command` is set.
get_next_command(read) ==
    /\ debugger = "running"
    /\ command = NoCommand
    /\ last_read' = read
    /\ IF read.kind = "Interrupted"
       THEN /\ printed' = "Type \"quit\" to exit"
            /\ UNCHANGED <<command, debugger>>
       ELSE IF read.kind = "Eof"
       THEN /\ command' = [kind |-> "Quit"]
            /\ UNCHANGED <<printed, debugger>>
       ELSE IF read.kind = "Io"
       THEN /\ debugger' = "aborted"
            /\ printed' = "Unexpected I/O error"
            /\ UNCHANGED command
       ELSE IF IsBlank(read.line)
       THEN UNCHANGED <<command, printed, debugger>>
       ELSE LET parsed == from_tokens(split_whitespace(read.line))
            IN  /\ command' = parsed.cmd
                /\ debugger' = IF parsed.result = "panic" THEN "aborted" ELSE debugger
                /\ printed' = IF parsed.result = "panic" THEN "index out of bounds"
                              ELSE IF parsed.result = "None" THEN "Unrecognized command."
                              ELSE printed
    /\ UNCHANGED <<proxyVars, mapVars, listVars, inferior, breakpoints, child, live>>

\* What a command has made of the debugger so far.
Now == [inferior |-> inferior, child |-> child, live |-> live,
        aborted |-> FALSE, printed |-> printed]

\* A panic: the debugger is aborted where it stands.
Abort(d) == [d EXCEPT !.aborted = TRUE]

\* Inferior::kill: `child.kill().unwrap()` and `wait(None).unwrap()`.  Both
\* fail, and panic, for a process that is gone.
kill(d) ==
    IF d.child = "stopped"
    THEN [d EXCEPT !.child = "killed", !.live = @ - 1,
                   !.printed = "Killing running inferior"]
    ELSE Abort(d)

\* Inferior::new: spawn the target; None when it cannot be spawned.
NewInferior(d, spawned) ==
    IF spawned
    THEN [d EXCEPT !.inferior = "Some", !.child = "stopped", !.live = @ + 1]
    ELSE [d EXCEPT !.printed = "Error starting subprocess"]

\* The states a resumed child is reported in by waitpid.
Statuses == {"Exited", "Signaled", "Stopped"}

\* Inferior::continue_run: `getregs(pid).unwrap()` panics for a process that
\* is gone; a stopped child is resumed and waited for.
continue_run(d, status) ==
    IF d.child # "stopped" THEN Abort(d)
    ELSE IF status = "Exited" THEN [d EXCEPT !.child = "exited", !.live = @ - 1]
    ELSE IF status = "Signaled" THEN [d EXCEPT !.child = "signaled", !.live = @ - 1]
    ELSE d

\* The three arms on the status continue_run returned.
OnStatus(d, status) ==
    IF d.aborted THEN d
    ELSE IF status = "Exited"
        THEN [d EXCEPT !.inferior = "None", !.printed = "Child exited"]
    ELSE IF status = "Signaled" THEN [d EXCEPT !.printed = "signal"]
    ELSE [d EXCEPT !.printed = "Child stopped"]

\* The command is carried out and left the debugger as `d`.
Done(d) ==
    /\ inferior' = d.inferior
    /\ child' = d.child
    /\ live' = d.live
    /\ printed' = d.printed
    /\ debugger' = IF d.aborted THEN "aborted" ELSE debugger
    /\ command' = NoCommand
    /\ UNCHANGED <<proxyVars, mapVars, listVars, last_read>>

\* DebuggerCommand::Run
Run(spawned, status) ==
    /\ debugger = "running"
    /\ command.kind = "Run"
    /\ LET discarded == IF inferior = "Some"
                        THEN LET k == kill(Now)
                             IN  IF k.aborted THEN k ELSE [k EXCEPT !.inferior = "None"]
                        ELSE Now
           started == IF discarded.aborted THEN discarded ELSE NewInferior(discarded, spawned)
       IN  IF started.aborted \/ ~spawned
           THEN Done(started)
           ELSE Done(OnStatus(continue_run(started, status), status))
    /\ UNCHANGED breakpoints

\* DebuggerCommand::Breakpoint: the address is recorded; with an inferior a
\* byte is written to it, which fails without a panic.
Breakpoint ==
    /\ debugger = "running"
    /\ command.kind = "Breakpoint"
    /\ breakpoints' = breakpoints \cup {command.addr}
    /\ Done([Now EXCEPT !.printed = "Set breakpoint"])

\* DebuggerCommand::Backtrace: print_backtrace(..).unwrap() reads the
\* child's registers.
Backtrace ==
    /\ debugger = "running"
    /\ command.kind = "Backtrace"
    /\ IF inferior = "None"
       THEN Done([Now EXCEPT !.printed = "Child not running"])
       ELSE IF child = "stopped" THEN Done([Now EXCEPT !.printed = "backtrace"])
       ELSE Done(Abort(Now))
    /\ UNCHANGED breakpoints

\* DebuggerCommand::Continue
Continue(status) ==
    /\ debugger = "running"
    /\ command.kind = "Continue"
    /\ IF inferior = "None"
       THEN Done([Now EXCEPT !.printed = "Child not running"])
       ELSE Done(OnStatus(continue_run(Now, status), status))
    /\ UNCHANGED breakpoints

\* DebuggerCommand::Quit
Quit ==
    /\ debugger = "running"
    /\ command.kind = "Quit"
    /\ LET d == IF inferior = "Some"
                THEN LET k == kill(Now)
                     IN  IF k.aborted THEN k ELSE [k EXCEPT !.inferior = "None"]
                ELSE Now
       IN  /\ inferior' = d.inferior
           /\ child' = d.child
           /\ live' = d.live
           /\ printed' = d.printed
           /\ debugger' = IF d.aborted THEN "aborted" ELSE "returned"
    /\ command' = NoCommand
    /\ UNCHANGED <<proxyVars, mapVars, listVars, last_read, breakpoints>>

NextDeet ==
    \/ \E read \in ReadlineResults : get_next_command(read)
    \/ \E spawned \in BOOLEAN, status \in Statuses : Run(spawned, status)
    \/ Breakpoint
    \/ Backtrace
    \/ \E status \in Statuses : Continue(status)
    \/ Quit

\* The debugger from Debugger::new() on, under every input typed at its
\* prompt and every fate of its child.
InitDeet == ProxyAtRest /\ ParallelMapAtRest /\ LinkedListNew /\ DebuggerNew /\ debugger = "running"
SpecDeet == InitDeet /\ [][NextDeet]_vars

\* ================================================================== properties
\* A step in which handler h takes its snapshot of alive_upstreams.
Snapshot(h) == pc[h] \in {"idle", "select"} /\ pc'[h] \in {"connecting", "send502"}

\* A step in which a health-check round completes and its write guard drops.
RoundCompletes == hc_next # 0 /\ hc_next' = 0

\* ------------------------------------------------------------------ C1
\* C1: in every reachable state alive_upstreams is a subset of the configured
\* upstream addresses, whatever the Health Monitor, the reset loop and the
\* handlers have done.
C1_AliveSubsetOfConfigured == alive_upstreams \subseteq Range(upstream_addresses)

\* A finished round found every upstream of a two-address configuration alive
\* and a handler's failed connect has since removed one of them.
C1_Witness ==
    /\ hc_next = 0
    /\ round_ok = Range(upstream_addresses)
    /\ alive_upstreams # {}
    /\ alive_upstreams # round_ok

\* ------------------------------------------------------------------ C2
\* C2: in the step in which a round completes, alive_upstreams becomes exactly
\* the set of configured addresses that answered 200 to a probe of that round.
C2_RoundResultIsAnswered200 ==
    [][RoundCompletes =>
          /\ alive_upstreams' = round_ok'
          /\ round_ok' \subseteq Range(upstream_addresses)]_vars

\* A round has just completed with one of two upstreams alive, while one
\* handler waits to remove an address and another is connecting.
C2_Witness ==
    /\ hc_next = 0
    /\ Range(upstream_addresses) = {"A", "B"}
    /\ round_ok = {"B"}
    /\ alive_upstreams = round_ok
    /\ \E h, g \in Conns : pc[h] = "remove" /\ pc[g] = "connecting"

\* ------------------------------------------------------------------ C3
\* C3: every snapshot a handler takes is taken of a settled set (the set as it
\* stood when no round was in progress: the previous round's result less the
\* handlers' removals), never of the cleared or partly rebuilt set; the address
\* drawn is in that set, and the handler finds nothing to draw only when that
\* set is empty.
C3_SnapshotsSeeSettledSet ==
    [][\A h \in Conns : Snapshot(h) =>
          /\ alive_upstreams = settled_upstreams
          /\ pc'[h] = "connecting" => upstream_ip'[h] \in settled_upstreams
          /\ pc'[h] = "send502" => settled_upstreams = {}]_vars

\* A round is in progress, the set is in an intermediate state that differs
\* from the settled one, and a handler is suspended on the read guard.
C3_Witness ==
    /\ hc_next # 0
    /\ alive_upstreams # settled_upstreams
    /\ \E h \in Conns : pc[h] = "select"

\* ------------------------------------------------------------------ C4
\* C4 (as claimed): a connection whose selection starts after an all-failed
\* round and before the next round completes never gets as far as a connect.
C4_Original ==
    \A h \in Conns : doomed[h] => pc[h] \in {"select", "send502"}

\* C4 (amended): a round in which no upstream answers 200 leaves the set empty;
\* every snapshot taken while the last finished round is such a round (no
\* snapshot is taken while the next one is in progress) finds nothing to draw,
\* and the handler answers 502 and closes: no connect, no request read.
C4_AllFailedMeans502 ==
    [][/\ RoundCompletes /\ round_ok' = {} => alive_upstreams' = {}
       /\ \A h \in Conns :
            /\ Snapshot(h) /\ all_failed => pc'[h] = "send502"
            /\ pc[h] = "send502" => pc'[h] \in {"send502", "closed"}]_vars

\* After an all-failed round, with no round in progress, a handler whose
\* selection started after that round is about to send its 502.
C4_Witness ==
    /\ all_failed
    /\ hc_next = 0
    /\ \E h \in Conns : doomed[h] /\ pc[h] = "send502"

\* A step in which handler h runs the rate-limit block.
RateStep(h) == pc[h] = "ratelimit" /\ pc'[h] # "ratelimit"

\* ------------------------------------------------------------------ C5
\* C5: with a nonzero threshold T, the k-th request of one client to reach the
\* rate-limit check since the last clear (or since the start) is admitted when
\* k <= T and rejected with a 429 when k > T; so request T+1 of a window is
\* rejected and the first request after a clear is admitted.
C5_FirstTAdmittedPerWindow ==
    [][\A h \in Conns : RateStep(h) =>
          LET k == window_checks[client_ip[h]] + 1
          IN  IF k <= max_requests_per_minute
              THEN pc'[h] = "forward"
              ELSE pc'[h] = "write429"]_vars

\* In the window after a clear that ended a full window, the watched client
\* again had T requests admitted and its request T+1 is being answered 429.
C5_Witness ==
    /\ max_requests_per_minute >= 1
    /\ prev_admits = max_requests_per_minute
    /\ window_admits[Watched] = max_requests_per_minute
    /\ window_checks[Watched] = max_requests_per_minute + 1
    /\ \E h \in Conns : client_ip[h] = Watched /\ pc[h] = "write429"

\* ------------------------------------------------------------------ C6
\* C6 (as claimed): between two consecutive clears at most T requests of one
\* client are written to an upstream.
C6_Original ==
    max_requests_per_minute >= 1 => window_fwd <= max_requests_per_minute

\* C6 (amended): between two consecutive clears at most T requests of one
\* client are admitted by the rate-limit check, over all of its connections.
C6_AdmittedPerWindowAtMostT ==
    max_requests_per_minute >= 1 =>
        \A c \in Clients : window_admits[c] <= max_requests_per_minute

\* Two connections of one client ran the check in the same window: the one
\* took the last admission, the other is being rejected.
C6_Witness ==
    /\ max_requests_per_minute >= 1
    /\ \E h, g \in Conns :
          /\ h # g
          /\ client_ip[h] = client_ip[g]
          /\ pc[h] = "forward"
          /\ pc[g] = "write429"
          /\ window_admits[client_ip[h]] = max_requests_per_minute

\* ------------------------------------------------------------------ C7
\* C7: with threshold 0 no handler ever runs the rate-limit block or answers
\* 429, none holds the map's lock, and the map stays empty.
C7_ZeroThresholdAlwaysAdmits ==
    max_requests_per_minute = 0 =>
        /\ rate_limit_map = EmptyMap
        /\ map_owner = 0
        /\ \A h \in Conns : pc[h] \notin {"ratelimit", "write429"}

\* With threshold 0 the watched client had as many requests forwarded in one
\* window as the model counts.
C7_Witness ==
    /\ max_requests_per_minute = 0
    /\ window_fwd = MaxCount

\* ------------------------------------------------------------------ C8
\* C8: every run of the rate-limit block raises the client's counter by exactly
\* one, rejected or not; once the counter is over the threshold every further
\* request is rejected, a rejected request goes back to reading without being
\* written to the upstream, and no counter decreases except when the whole map
\* is cleared.
C8_RejectedStillCounts ==
    [][/\ \A h \in Conns : RateStep(h) =>
            /\ CountIn(rate_limit_map', client_ip[h]) = Count(client_ip[h]) + 1
            /\ Count(client_ip[h]) >= max_requests_per_minute => pc'[h] = "write429"
       /\ \A h \in Conns : pc[h] = "write429" => pc'[h] \in {"write429", "read"}
       /\ \/ \A c \in Clients : CountIn(rate_limit_map', c) >= Count(c)
          \/ rate_limit_map' = EmptyMap]_vars

\* A client whose counter was already over the threshold sent one more
\* request, which is being rejected.
C8_Witness ==
    /\ max_requests_per_minute >= 1
    /\ \E h \in Conns :
          /\ pc[h] = "write429"
          /\ Count(client_ip[h]) >= max_requests_per_minute + 2

\* ------------------------------------------------------------------ C9
\* The positions of the request loop, in which both sockets are open.
InLoop(p) ==
    p \in {"read", "send400", "send413", "ratelimit", "write429", "forward", "readresp", "relay"}

\* C9: once the 429 is written the handler is back at reading the next request
\* on the same client socket with the same upstream socket, and the upstream
\* socket does not change for as long as the handler stays in its loop: a
\* request admitted later is forwarded to the upstream chosen at the start.
C9_RejectionKeepsConnection ==
    [][\A h \in Conns :
          /\ pc[h] = "write429" /\ pc'[h] # "write429" => pc'[h] = "read"
          /\ InLoop(pc[h]) /\ InLoop(pc'[h]) =>
                /\ upstream_ip'[h] = upstream_ip[h]
                /\ client_ip'[h] = client_ip[h]
          /\ InLoop(pc[h]) => upstream_ip[h] \in Addrs]_vars

\* The watched connection was answered 429, and a later request of it has been
\* admitted and written to its upstream, which the set no longer holds.
C9_Witness ==
    /\ rejections = 1
    /\ pc[WatchedConn] = "readresp"
    /\ upstream_ip[WatchedConn] \notin alive_upstreams

\* ------------------------------------------------------------------ C10
\* C10: the window is fixed.  Whatever the counters are, a clear leaves no
\* entry in the map, so around one clear a client gets up to T admissions
\* before it and T after it, 2*T together and never more.
C10_FixedWindow ==
    /\ [](max_requests_per_minute >= 1 =>
            prev_admits + window_admits[Watched] <= 2 * max_requests_per_minute)
    /\ [][ramte_limit_map_clear => \A c \in Clients : CountIn(rate_limit_map', c) = 0]_vars

\* T requests of the watched client were admitted in the window before the
\* last clear and T more, none rejected, in the window after it.
C10_Witness ==
    /\ max_requests_per_minute >= 1
    /\ prev_admits = max_requests_per_minute
    /\ window_admits[Watched] = max_requests_per_minute
    /\ window_checks[Watched] = max_requests_per_minute

\* ------------------------------------------------------------------ C11
\* C11: the upstream is chosen once per connection.  A handler that is in its
\* request loop never goes back to selecting, connecting or removing: it stays
\* in the loop or ends with a 502 or a return; and until it returns its
\* upstream is the one it connected to, whatever becomes of alive_upstreams.
C11_UpstreamChosenOnce ==
    [][\A h \in Conns : InLoop(pc[h]) =>
          /\ InLoop(pc'[h]) \/ pc'[h] \in {"send502", "closed"}
          /\ pc'[h] # "closed" => upstream_ip'[h] = upstream_ip[h]]_vars

\* The watched connection had a request served and has had a later one
\* written to the same upstream, which the set no longer holds.
C11_Witness ==
    /\ served
    /\ pc[WatchedConn] = "readresp"
    /\ upstream_ip[WatchedConn] \in Addrs
    /\ upstream_ip[WatchedConn] \notin alive_upstreams

\* ------------------------------------------------------------------ C12
\* C12: a failed connect leads to the removal of exactly the address that was
\* tried; after its removal the handler answers 502 when the set is empty and
\* else draws again, from the set as it then stands; a handler that has not
\* tried any address answers 502 only when it finds the set empty.
C12_RemoveThenRetryOr502 ==
    [][\A h \in Conns :
          /\ pc[h] = "connecting" /\ pc'[h] # "connecting" =>
                pc'[h] \in {"read", "remove"} /\ alive_upstreams' = alive_upstreams
          /\ pc[h] = "remove" /\ pc'[h] # "remove" =>
                /\ alive_upstreams' = alive_upstreams \ {upstream_ip[h]}
                /\ pc'[h] = IF alive_upstreams' = {} THEN "send502" ELSE "select"
          /\ pc[h] \in {"idle", "select"} /\ pc'[h] = "send502" => alive_upstreams = {}
          /\ pc[h] \in {"idle", "select"} /\ pc'[h] = "connecting" =>
                upstream_ip'[h] \in alive_upstreams]_vars

\* No round has run yet; the only connection accepted so far failed to
\* connect, removed the address it had tried and is about to draw again from
\* what is left.
C12_Witness ==
    \E h \in Conns :
        /\ pc[h] = "select"
        /\ \A g \in Conns \ {h} : pc[g] = "idle"
        /\ hc_next = 0 /\ round_ok = {} /\ ~all_failed
        /\ alive_upstreams # {}
        /\ alive_upstreams # Range(upstream_addresses)

\* ------------------------------------------------------------------ C13
\* C13: a handler whose write to or read from the upstream fails answers 502
\* and returns, and these steps leave alive_upstreams as it is; the set changes
\* only in a step of the Health Monitor or in the removal, by a handler whose
\* connect just failed, of the one address it had tried.
C13_UpstreamErrorLeavesSet ==
    [][/\ \A h \in Conns :
            /\ pc[h] \in {"forward", "readresp"} /\ pc'[h] # pc[h] =>
                  /\ pc'[h] \in {"readresp", "relay", "send502"}
                  /\ alive_upstreams' = alive_upstreams
            /\ pc[h] = "send502" /\ pc'[h] # "send502" =>
                  /\ pc'[h] = "closed"
                  /\ alive_upstreams' = alive_upstreams
       /\ alive_upstreams' # alive_upstreams =>
            \/ hc_next # 0 \/ hc_next' # 0
            \/ \E h \in Conns :
                  /\ pc[h] = "remove" /\ pc'[h] # "remove"
                  /\ alive_upstreams' = alive_upstreams \ {upstream_ip[h]}]_vars

\* The watched connection read a request, the upstream failed it, and the 502
\* is about to be sent while the set still holds that upstream.
C13_Witness ==
    /\ pc[WatchedConn] = "send502"
    /\ pending = 1
    /\ upstream_ip[WatchedConn] \in alive_upstreams

\* ------------------------------------------------------------------ C14
\* C14: a request the codec rejects as incomplete (some bytes read), malformed,
\* with an invalid content length or with a content-length mismatch is answered
\* 400, one with too large a body 413; reading it and answering it write
\* nothing to the upstream and leave the rate-limit map as it is, and once the
\* answer is sent the handler reads the next request, on the same sockets.
C14_ClientErrorAnswered ==
    /\ [](/\ pc[WatchedConn] = "send400" <=> read_outcome \in BadRequests
          /\ pc[WatchedConn] = "send413" <=> read_outcome = "too_large"
          /\ pc[WatchedConn] \in {"send400", "send413"} => unread = 0)
    /\ [][\A h \in Conns :
            /\ pc[h] = "read" /\ pc'[h] \in {"send400", "send413"} =>
                  /\ rate_limit_map' = rate_limit_map
                  /\ h = WatchedConn => unread' = unread
            /\ pc[h] \in {"send400", "send413"} /\ pc'[h] # pc[h] =>
                  /\ pc'[h] = "read"
                  /\ rate_limit_map' = rate_limit_map
                  /\ client_ip'[h] = client_ip[h] /\ upstream_ip'[h] = upstream_ip[h]
                  /\ h = WatchedConn => unread' = unread]_vars

\* The watched connection, which had a request served and counted before, is
\* about to answer 413 to a request whose body is too large.
C14_Witness ==
    /\ pc[WatchedConn] = "send413"
    /\ read_outcome = "too_large"
    /\ served
    /\ Count(client_ip[WatchedConn]) >= 1

\* ------------------------------------------------------------------ C15
\* C15: when the read of a request ends with end-of-stream before any byte or
\* with an I/O error of the client stream, and only then, the handler returns
\* from that very step: no response is sent, nothing is written to the
\* upstream, and alive_upstreams and the rate-limit map stay as they are.
C15_ClientGoneClosesSilently ==
    [][\A h \in Conns : pc[h] = "read" /\ pc'[h] # "read" =>
          /\ h = WatchedConn => (pc'[h] = "closed" <=> read_outcome' \in {"eof", "io_err"})
          /\ pc'[h] = "closed" =>
                /\ alive_upstreams' = alive_upstreams
                /\ rate_limit_map' = rate_limit_map /\ map_owner' = map_owner
                /\ h = WatchedConn => pending = 0 /\ unread = 0]_vars

\* The watched connection ended on an I/O error of the client stream while
\* the map held a count for its client.
C15_Witness ==
    /\ pc[WatchedConn] = "closed"
    /\ read_outcome = "io_err"
    /\ Count(Watched) >= 1

\* ------------------------------------------------------------------ C16
\* C16: a connection handles one request at a time.  At most one request is
\* read and unanswered and at most one is written to the upstream and
\* unanswered by it; a request is read only when there is none of either, and
\* written to the upstream only when there is none of the second; reading a
\* request makes it the one unanswered request, and each step that sends the
\* upstream's response or a 400, 413 or 429 answers exactly that one.
C16_OneRequestAtATime ==
    /\ [](/\ pending <= 1 /\ unread <= 1
          /\ pc[WatchedConn] = "read" => pending = 0 /\ unread = 0
          /\ pc[WatchedConn] = "forward" => pending = 1 /\ unread = 0
          /\ pc[WatchedConn] = "relay" => pending = 1 /\ unread = 0)
    /\ [][/\ pc[WatchedConn] = "read" /\ pc'[WatchedConn] \notin {"read", "closed"} =>
                pending = 0 /\ pending' = 1
          /\ /\ pc[WatchedConn] \in {"send400", "send413", "write429", "relay"}
             /\ pc'[WatchedConn] # pc[WatchedConn]
             => pending = 1 /\ pending' = 0 /\ pc'[WatchedConn] = "read"
          /\ pc[WatchedConn] = "send502" /\ pc'[WatchedConn] # "send502" =>
                pending <= 1 /\ pc'[WatchedConn] = "closed"]_vars

\* The watched connection had a request served and holds the next one, not
\* yet written, with no response outstanding from the upstream.
C16_Witness ==
    /\ pc[WatchedConn] = "forward"
    /\ served
    /\ pending = 1
    /\ unread = 0

\* ------------------------------------------------------------------ C17
\* C17: a round starts from the empty set and probes the configured list from
\* its first address to its last, whatever the set held before; an address
\* that answers 200 is in the set from that probe on, also when it was not in
\* the set before the round, so at the end of the round every address that
\* answered 200 is a member.
C17_EveryRoundProbesAll ==
    [][/\ hc_next = 0 /\ hc_next' # 0 => hc_next' = 1 /\ alive_upstreams' = {}
       /\ hc_next # 0 /\ hc_next' # hc_next =>
            /\ hc_next' = IF hc_next = Len(upstream_addresses) THEN 0 ELSE hc_next + 1
            /\ round_ok' # round_ok => upstream_addresses[hc_next] \in alive_upstreams'
            /\ round_ok' \subseteq alive_upstreams']_vars

\* A handler gave up because the set was empty, and a round that has
\* completed since has made every configured upstream a member again.
C17_Witness ==
    /\ hc_next = 0
    /\ alive_upstreams = Range(upstream_addresses)
    /\ Cardinality(alive_upstreams) = 2
    /\ \E h \in Conns : pc[h] = "send502" /\ upstream_ip[h] = "none"

\* ------------------------------------------------------------------ C18
\* C18 (as claimed): with upstreams A and B, a connection accepted after a
\* round in which only B answered 200, and before a later round completes, is
\* never given A as its upstream.
C18_Original ==
    \A h \in Conns : routed[h] => upstream_ip[h] # "A"

\* C18 (amended): with upstreams A and B, a round in which only B answers 200
\* leaves the set {B}, and every draw made while that round is the last
\* finished one (no draw is made while the next one is in progress) yields B.
C18_DrawsOnlyB ==
    [][/\ RoundCompletes /\ b_only' => alive_upstreams' = {"B"}
       /\ \A h \in Conns : Snapshot(h) /\ b_only =>
            /\ pc'[h] = "connecting" => upstream_ip'[h] = "B"
            /\ alive_upstreams \subseteq {"B"}]_vars

\* After a round in which only B answered 200, every connection accepted
\* since is connecting to B.
C18_Witness ==
    /\ b_only
    /\ hc_next = 0
    /\ alive_upstreams = {"B"}
    /\ \A h \in Conns : routed[h] /\ pc[h] = "connecting" /\ upstream_ip[h] = "B"

\* ------------------------------------------------------------------ C19
\* C19: the request written to the upstream is the request read from the
\* client with the client's address as one more, last entry of its
\* X-Forwarded-For header (the only entry when the header was absent), the
\* entries it had kept in place and the rest of it as it was; nothing is
\* written to the upstream but in that step, so nothing for a request that is
\* answered 400, 413 or 429.
C19_ForwardedForAppendedOnce ==
    [][/\ pc[WatchedConn] = "forward" /\ pc'[WatchedConn] = "readresp" =>
            /\ upstream_wire'.rest = request.rest
            /\ upstream_wire'.xff = request.xff \o <<client_ip[WatchedConn]>>
       /\ upstream_wire' # upstream_wire =>
            \/ pc[WatchedConn] = "forward" /\ pc'[WatchedConn] = "readresp"
            \/ upstream_wire' = NoRequest
       /\ pc[WatchedConn] \in {"send400", "send413", "write429"} =>
            upstream_wire = NoRequest /\ upstream_wire' = NoRequest]_vars

\* A request that came with an X-Forwarded-For entry has been written to the
\* upstream with the client's address after that entry.
C19_Witness ==
    /\ pc[WatchedConn] = "readresp"
    /\ request.xff = <<"p">>
    /\ upstream_wire = [xff |-> <<"p", "c1">>, rest |-> request.rest]
    /\ request.rest \in Rests

\* ------------------------------------------------------------------ C20
\* A step in which handler h meets a failure: its connect fails, its upstream
\* write or read fails, its client is gone, or it returns after a 502.
Fails(h) == pc'[h] # pc[h] /\ pc'[h] \in {"remove", "send502", "closed"}

\* C20: a failure stays in its connection.  The accept loop is always running,
\* also after a failed accept; no lock is ever left held by a handler that has
\* returned, so the Health Monitor can start its next round and the reset loop
\* can clear; and a step in which one handler fails changes neither the
\* position nor the sockets of any other handler, nor the Health Monitor's
\* position.
C20_FailuresAreLocal ==
    /\ [](/\ listening
          /\ hc_next = 0 => WriteGuardFree
          /\ map_owner # 0 => pc[map_owner] = "write429")
    /\ [][\A h \in Conns : Fails(h) =>
            /\ \A g \in Conns \ {h} :
                  /\ pc'[g] = pc[g]
                  /\ upstream_ip'[g] = upstream_ip[g]
                  /\ client_ip'[g] = client_ip[g]
            /\ hc_next' = hc_next /\ alive_writer' = alive_writer
            /\ listening']_vars

\* The watched connection ended on an I/O error of its client while a round
\* of the Health Monitor is in progress and another connection waits for its
\* upstream's response.
C20_Witness ==
    /\ pc[WatchedConn] = "closed"
    /\ read_outcome = "io_err"
    /\ hc_next # 0
    /\ \E g \in Conns \ {WatchedConn} : pc[g] = "readresp" /\ upstream_ip[g] \in Addrs

\* ------------------------------------------------------------------ C21
\* C21: with a nonzero threshold each client's counter in the map is the
\* number of its requests that ran the rate-limit check since the last clear
\* (no entry stands for none); a run of the check for one client leaves every
\* other client's entry as it was, and an entry goes away only when the whole
\* map is cleared.
C21_CounterIsWindowCount ==
    /\ [](max_requests_per_minute >= 1 =>
            /\ \A c \in Clients : Count(c) = window_checks[c]
            /\ \A c \in DOMAIN rate_limit_map : rate_limit_map[c] >= 1)
    /\ [][/\ \A h \in Conns : RateStep(h) =>
                /\ DOMAIN rate_limit_map' = DOMAIN rate_limit_map \cup {client_ip[h]}
                /\ \A c \in DOMAIN rate_limit_map \ {client_ip[h]} :
                      rate_limit_map'[c] = rate_limit_map[c]
          /\ \/ DOMAIN rate_limit_map \subseteq DOMAIN rate_limit_map'
             \/ rate_limit_map' = EmptyMap /\ window_checks' = ZeroCounts]_vars

\* In a window that follows a clear, both clients have an entry, the one over
\* the threshold and the other not, and a request of the second is admitted.
C21_Witness ==
    /\ max_requests_per_minute >= 1
    /\ prev_admits >= 1
    /\ Count("c1") > max_requests_per_minute
    /\ Count("c2") >= 1 /\ Count("c2") <= max_requests_per_minute
    /\ \E h \in Conns : client_ip[h] = "c2" /\ pc[h] = "forward"

\* ------------------------------------------------------------------ C22
\* C22: the two background loops run forever, whatever the handlers do.
\* Rounds of the Health Monitor start and complete again and again; the map is
\* cleared again and again, so it is empty infinitely often; and when the
\* client keeps sending requests, so that again and again one of them is up
\* for the rate-limit check, each rejection (the counter over the threshold)
\* is followed by an admission in a later window (the counter between 1 and
\* the threshold).
C22_BackgroundLoopsRunForever ==
    /\ []<>(hc_next = 0) /\ []<>(hc_next # 0)
    /\ []<>(rate_limit_map = EmptyMap)
    /\ []<>(\E h \in Conns : pc[h] = "ratelimit") =>
          (Count(Watched) > max_requests_per_minute
              ~> (Count(Watched) >= 1 /\ Count(Watched) <= max_requests_per_minute))

\* ------------------------------------------------------------------ C23
\* No round of the Health Monitor has started yet.
NoRoundYet == hc_next = 0 /\ round_ok = {} /\ ~all_failed

\* A step in which connection h is accepted and its handler draws at once.
AcceptedAndDrew(h) == pc[h] = "idle" /\ pc'[h] \notin {"idle", "select"}

\* C23 (as claimed): until the first round the set holds the configured
\* addresses, and a connection accepted before the first round is given a
\* configured upstream, never a 502 for an empty set.
C23_Original ==
    /\ [](NoRoundYet => Range(upstream_addresses) \subseteq alive_upstreams)
    /\ [][\A h \in Conns : AcceptedAndDrew(h) /\ NoRoundYet =>
            /\ pc'[h] = "connecting"
            /\ upstream_ip'[h] \in Range(upstream_addresses)]_vars

\* C23 (amended): the set starts as the configured addresses, not empty;
\* until the first round starts it changes only by a handler removing the
\* address whose connect failed; and a connection accepted before the first
\* round is given an address of the set as it then stands, a configured one,
\* and a 502 only when the removals have left the set empty.
C23_PopulatedAtStartup ==
    /\ [](/\ NoRoundYet /\ (\A h \in Conns : pc[h] = "idle") =>
                alive_upstreams = Range(upstream_addresses) /\ alive_upstreams # {}
          /\ NoRoundYet => alive_upstreams \subseteq Range(upstream_addresses))
    /\ [][/\ NoRoundYet /\ alive_upstreams' # alive_upstreams =>
                \/ hc_next' # 0
                \/ \E h \in Conns :
                      /\ pc[h] = "remove" /\ pc'[h] # "remove"
                      /\ alive_upstreams' = alive_upstreams \ {upstream_ip[h]}
          /\ \A h \in Conns : AcceptedAndDrew(h) /\ NoRoundYet =>
                IF alive_upstreams = {}
                THEN pc'[h] = "send502"
                ELSE /\ pc'[h] = "connecting"
                     /\ upstream_ip'[h] \in alive_upstreams
                     /\ upstream_ip'[h] \in Range(upstream_addresses)]_vars

\* Before the first round, one connection has its upstream and reads, and a
\* second one has just been given an upstream out of the full configured set
\* of two addresses.
C23_Witness ==
    /\ NoRoundYet
    /\ alive_upstreams = Range(upstream_addresses)
    /\ Cardinality(alive_upstreams) = 2
    /\ \E h, g \in Conns :
          /\ pc[h] = "read" /\ upstream_ip[h] \in alive_upstreams
          /\ pc[g] = "connecting" /\ upstream_ip[g] \in alive_upstreams

\* ------------------------------------------------------------------ C24
\* C24: the map's lock is held only for the increment and the comparison.  No
\* handler waits for the write of a 429 to its client with the lock held, so
\* while one does wait for that write the lock is free for the other handlers'
\* checks and for the reset loop's clear.
C24_LockHeldOnlyForCheck ==
    /\ \A h \in Conns : pc[h] = "write429" => map_owner # h
    /\ (\E h \in Conns : pc[h] = "write429") => map_owner = 0

\* ------------------------------------------------------------------ C25
\* The positions of connect_to_upstream: waiting for the set, connecting,
\* about to remove the address whose connect failed.
InConnectToUpstream(p) == p \in {"select", "connecting", "remove"}

\* C25 (as claimed): connect_to_upstream always returns.  Every handler that
\* is in it comes out of it, with an upstream socket or with the Err that is
\* answered 502.
C25_Original ==
    \A h \in Conns : InConnectToUpstream(pc[h]) ~> ~InConnectToUpstream(pc[h])

\* C25 (amended): between two completions of health-check rounds a handler
\* fails at most as many connects as there are configured addresses.  Each
\* failed connect is followed by the removal of the address tried, outside a
\* round the set never grows, and the handler gives up as soon as the set is
\* empty; it tries again only an address that a round has put back.
C25_RetriesBoundedBetweenRounds ==
    /\ [](attempts <= Cardinality(Range(upstream_addresses)))
    /\ [][/\ hc_next = 0 /\ hc_next' = 0 => alive_upstreams' \subseteq alive_upstreams
          /\ \A h \in Conns : pc[h] = "remove" /\ pc'[h] # "remove" =>
                /\ upstream_ip[h] \notin alive_upstreams'
                /\ pc'[h] = "send502" <=> alive_upstreams' = {}]_vars

\* With two addresses configured, the watched connection failed to connect
\* to the one and to the other with no round completed in between, and gives up.
C25_Witness ==
    /\ attempts = 2
    /\ Cardinality(Range(upstream_addresses)) = 2
    /\ pc[WatchedConn] = "send502"
    /\ alive_upstreams = {}

\* ------------------------------------------------------------------ C26
\* C26: parallel_map returns for every input vector, the empty one included,
\* and every number of threads from 1 on.  Until it has returned, main or a
\* worker can take a step: the collecting loop never waits on the output
\* channel with nothing in it and no worker left to send.
C26_ParallelMapReturns ==
    main_pc # "returned" =>
        \/ ENABLED MainSend \/ ENABLED MainDropSender \/ ENABLED MainCollect
        \/ \E w \in Workers : worker_pc[w] # "exited"

\* ------------------------------------------------------------------ C27
\* The inputs equal to `v` that worker threads hold: received, not yet answered.
HeldByWorkers(v) ==
    Cardinality({w \in Workers : worker_pc[w] = "send" /\ worker_input[w] = v})

\* C27: for a non-empty input, under every interleaving, each element is
\* in exactly one place at a time: not sent yet, in the input channel, held
\* by one worker, or mapped to its result in the output channel or in the
\* output vector; nothing is lost or duplicated on the way.  When parallel_map
\* returns, the output vector is as long as the input and holds f(x) for
\* each element x as often as the input holds x.
C27_EachInputMappedOnce ==
    input_vec # <<>> =>
        /\ \A v \in Values :
              Occurrences(SubSeq(input_vec, sent + 1, Len(input_vec)), v)
                + Occurrences(input_channel, v) + HeldByWorkers(v)
                + Occurrences(output_channel, F(v)) + Occurrences(output_vec, F(v))
              = Occurrences(input_vec, v)
        /\ \A w \in Workers : worker_pc[w] = "send" <=> worker_input[w] \in Values
        /\ Len(output_vec) <= Len(input_vec)
        /\ main_pc = "returned" =>
              /\ Len(output_vec) = Len(input_vec)
              /\ \A v \in Values : Occurrences(output_vec, F(v)) = Occurrences(input_vec, v)
              /\ \A i \in 1..Len(output_vec) : \E v \in Values : output_vec[i] = F(v)

\* Two workers mapped the two elements of an input, and the results came
\* back in the other order.
C27_Witness ==
    /\ main_pc = "returned"
    /\ num_threads = 2
    /\ input_vec = <<1, 2>>
    /\ output_vec = <<4, 1>>

\* ------------------------------------------------------------------ C28
\* C28: after any sequence of push_front and pop_front, get_size is the
\* number of nodes reachable from head and is_empty holds exactly when head
\* is None; a new list is empty with size 0; the size never goes below 0; a
\* pop_front on an empty list returns None and leaves the size 0, and one on
\* a non-empty list returns the value pushed last among those still in the
\* list and takes one node off.
C28_SizeCountsReachableNodes ==
    /\ [](/\ get_size = ChainLength(nodes, head)
          /\ is_empty <=> head = 0
          /\ size >= 0
          /\ ChainValues(nodes, head) = pushed
          /\ last_op = "new" => is_empty /\ get_size = 0)
    /\ [][last_op' = "pop_front" =>
            IF head = 0
            THEN last_popped' = None /\ size = 0 /\ size' = 0 /\ head' = 0
            ELSE /\ last_popped' = Some(Head(pushed))
                 /\ size' = size - 1
                 /\ ChainLength(nodes', head') = ChainLength(nodes, head) - 1]_vars

\* Three values were pushed, the last one was popped and returned, and two
\* nodes are left.
C28_Witness ==
    /\ last_op = "pop_front"
    /\ last_popped = Some(2)
    /\ pushed = <<1, 1>>
    /\ get_size = 2
    /\ Cardinality(DOMAIN nodes) = 2

\* ------------------------------------------------------------------ C29
\* The kinds of DebuggerCommand.
CommandKinds == {"Quit", "Run", "Continue", "Backtrace", "Breakpoint"}

\* C29: get_next_command prompts again until a valid command is entered:
\* reading a line that is not blank never aborts the debugger; the line
\* either yields a DebuggerCommand, or (an unknown word, a break with no
\* argument or with one that is no address) it is reported and the prompt
\* is shown again.
C29_RepromptsUntilValid ==
    [][(debugger = "running" /\ command = NoCommand
            /\ last_read'.kind = "Ok" /\ ~IsBlank(last_read'.line))
        => /\ debugger' = "running"
           /\ \/ command'.kind \in CommandKinds
              \/ /\ command' = NoCommand
                 /\ printed' = "Unrecognized command."]_vars

\* ------------------------------------------------------------------ C30
\* C30: after any sequence of commands, the inferior is Some only while a
\* traced child exists and is stopped, and there is at most one child at a
\* time; Continue and Backtrace with no inferior only report "Child not
\* running"; Run and Quit do not abort the debugger, and Quit leaves no
\* inferior and no child behind.
C30_InferiorIsStoppedChild ==
    /\ [](debugger = "running" =>
            /\ inferior = "Some" => child = "stopped" /\ live = 1
            /\ inferior = "None" => live = 0
            /\ live <= 1)
    /\ [][/\ (command.kind \in {"Continue", "Backtrace"} /\ inferior = "None")
              => /\ printed' = "Child not running"
                 /\ UNCHANGED <<inferior, child, live, breakpoints>>
          /\ command.kind \in {"Run", "Quit"} => debugger' # "aborted"
          /\ command.kind = "Quit"
              => inferior' = "None" /\ live' = 0 /\ debugger' = "returned"]_vars

====
